---- MODULE Spec2Model ----
(***************************************************************************)
(* Surfboard Finder (src/surfboard_finder_pro_compare.jsx): the catalog    *)
(* load effect, the volume heuristic, the scoring function, the filter /   *)
(* sort / top-pick pipeline, the CSV reader and the comparison selection.  *)
(*                                                                         *)
(* Numbers.  Litres are held in tenths (31.5 L is 315), weights in whole   *)
(* kilograms, scores in fortieths of a point (127 points is 5080): in      *)
(* these units every quantity the code computes from one-decimal volumes   *)
(* and whole-kilogram weights is an integer.                               *)
(***************************************************************************)
EXTENDS Integers, Sequences, FiniteSets, TLC

VARIABLES
  dataSource,        \* DATA_SOURCE, line 19
  boards,            \* useState<Board[]|null>, line 128
  isLoading,         \* line 129
  error,             \* line 130
  loads,             \* one record per run of the effect of lines 132-148
  weight,            \* line 120
  ability,           \* line 121
  wave,              \* line 122
  sort,              \* line 123
  selectedShapers,   \* line 124
  compareIds,        \* line 125
  enriched,          \* useMemo, line 151
  filtered,          \* useMemo, lines 154-167
  volRange,          \* [minV,maxV], line 150
  topPicksByShaper,  \* useMemo, lines 169-174
  csvText,           \* the text handed to parseAirtableCSV, line 138
  csvBoards          \* what parseAirtableCSV returned, null before it ran

loadVars == <<dataSource, boards, isLoading, error, loads>>
queryVars == <<weight, ability, wave, sort, selectedShapers>>
memoVars == <<volRange, enriched, filtered, topPicksByShaper>>
csvVars == <<csvText, csvBoards>>
vars == <<dataSource, boards, isLoading, error, loads, weight, ability, wave,
          sort, selectedShapers, compareIds, volRange, enriched, filtered,
          topPicksByShaper, csvText, csvBoards>>

\* ------------------------------------------------------------------ bounds

\* Runs of the load effect (mount, and re-mounts after a cleanup).
MaxLoads == 2

\* ------------------------------------------------------------- values

\* A nullable state value: null, or a value.
NullArr == [some |-> FALSE, val |-> <<>>]
NullStr == [some |-> FALSE, val |-> <<>>]
Some(x) == [some |-> TRUE, val |-> x]

DATA_SOURCES == {"github", "airtable"}

FALLBACK_BOARDS ==
  << [id |-> "js-monsta-2024", shaper |-> "JS Industries", model |-> "Monsta 2024",
      waveTypes |-> <<"small_beach", "mellow_point", "punchy_reef">>,
      abilities |-> <<"intermediate", "advanced">>,
      recommendedWeight |-> <<65, 95>>, length |-> "6'0", volume |-> 315,
      tail |-> "Squash", fins |-> "Thruster / 5-fin", construction |-> "PU/PE"],
     [id |-> "ci-happy-everyday", shaper |-> "Channel Islands", model |-> "Happy Everyday",
      waveTypes |-> <<"small_beach", "mellow_point">>,
      abilities |-> <<"beginner", "intermediate">>,
      recommendedWeight |-> <<55, 90>>, length |-> "5'10", volume |-> 303,
      tail |-> "Rounded Squash", fins |-> "Thruster / Quad",
      construction |-> "PU/PE / Spine-Tek", sponsored |-> TRUE],
     [id |-> "pyzel-ghost", shaper |-> "Pyzel", model |-> "Ghost",
      waveTypes |-> <<"punchy_reef", "overhead">>,
      abilities |-> <<"intermediate", "advanced">>,
      recommendedWeight |-> <<70, 105>>, length |-> "6'2", volume |-> 328,
      tail |-> "Round", fins |-> "Thruster", construction |-> "PU/PE / Epoxy"] >>

\* What a remote feed can decode to: an empty feed, a one-board feed, a
\* two-board feed (the boards are those of the bundled sample, reordered, so
\* that a feed is never mistaken for the fallback set).
Feeds ==
  { <<>>, <<FALLBACK_BOARDS[3]>>, <<FALLBACK_BOARDS[2], FALLBACK_BOARDS[1]>> }

\* The warning of line 143: `Using sample data (${DATA_SOURCE} fetch failed)`.
WarningText(ds) == <<"Using sample data (", ds, " fetch failed)">>

\* ------------------------------------------------- logic helpers

ABILITIES == {"beginner", "intermediate", "advanced"}
WAVE_TYPES == {"small_beach", "mellow_point", "punchy_reef", "overhead"}
SORTS == {"best", "volume", "sponsored"}

\* Array.prototype.includes.
Includes(arr, x) == \E i \in DOMAIN arr : arr[i] = x

Abs(n) == IF n < 0 THEN -n ELSE n
Min(a, b) == IF a < b THEN a ELSE b

\* Line 62, round1(n) = Math.round(n*10)/10, of n given in hundredths; the
\* result is in tenths.  Math.round rounds a half towards +infinity.
round1(n100) == (n100 + 5) \div 10

mult_swapped(ab) ==
  CASE ab = "beginner" -> <<45, 55>>
    [] ab = "intermediate" -> <<38, 47>>
    [] ab = "advanced" -> <<40, 30>>

\* Line 64, the multipliers, in hundredths.
mult(ab) ==
  CASE ab = "beginner" -> <<45, 55>>
    [] ab = "intermediate" -> <<38, 47>>
    [] ab = "advanced" -> <<30, 40>>

\* Lines 63-67.  The bounds are in tenths of a litre.
heuristicVolume(weightKg, ab) ==
  <<round1(weightKg * mult(ab)[1]), round1(weightKg * mult(ab)[2])>>

\* `b.sponsored` as a condition: a missing flag is undefined, which is falsy.
Sponsored(b) == "sponsored" \in DOMAIN b /\ b.sponsored

scoreBoard_exclusiveWeight(b, w, wv, ab) ==
  LET hv == heuristicVolume(w, ab)
      volDiff20 == Abs(2 * b.volume - (hv[1] + hv[2]))
      s0 == 4000 - Min(volDiff20, 800) * 3
      s1 == IF Includes(b.waveTypes, wv) THEN s0 + 400 ELSE s0
      s2 == IF Includes(b.abilities, ab) THEN s1 + 320 ELSE s1
      s3 == IF w > b.recommendedWeight[1] /\ w < b.recommendedWeight[2]
              THEN s2 + 240 ELSE s2 - 240
  IN IF Sponsored(b) THEN s3 + 120 ELSE s3

\* Lines 68-79.  The score is in fortieths of a point: with volumes in tenths
\* targetV = (minV+maxV)/2 is a whole number of twentieths, and 1.5 points
\* per litre is 3 fortieths per twentieth of a litre.
scoreBoard(b, w, wv, ab) ==
  LET hv == heuristicVolume(w, ab)
      targetV20 == hv[1] + hv[2]
      volDiff20 == Abs(2 * b.volume - targetV20)
      s0 == 4000 - Min(volDiff20, 800) * 3
      s1 == IF Includes(b.waveTypes, wv) THEN s0 + 400 ELSE s0
      s2 == IF Includes(b.abilities, ab) THEN s1 + 320 ELSE s1
      wMin == b.recommendedWeight[1]
      wMax == b.recommendedWeight[2]
      s3 == IF w >= wMin /\ w <= wMax THEN s2 + 240 ELSE s2 - 240
  IN IF Sponsored(b) THEN s3 + 120 ELSE s3

\* Array.prototype.sort with a comparator that orders by an integer key,
\* cmp(a,b) = key(a) - key(b): ascending by key, and stable (ECMAScript 2019;
\* line 96 already needs a 2021 runtime for replaceAll).
\* keys[i] is the key of list[i].
SortStable(list, keys) ==
  LET n == Len(list)
      rank(i) == 1 + Cardinality({j \in 1..n :
                        \/ keys[j] < keys[i]
                        \/ keys[j] = keys[i] /\ j < i})
  IN [p \in 1..n |-> list[CHOOSE i \in 1..n : rank(i) = p]]

\* ------------------------------------------------- the derived views

\* Number(weight||0), line 150 and 151: the weight field holds a whole
\* number of kilograms, or is empty (0 here), which gives 0.
NumberOfWeight(w) == w

\* Line 151: (boards||[]).map(b => ({...b, _score: scoreBoard(...)})).
enrichedOf(bs, w, wv, ab) ==
  LET arr == IF bs.some THEN bs.val ELSE <<>>
  IN [i \in DOMAIN arr |->
        arr[i] @@ [_score |-> scoreBoard(arr[i], NumberOfWeight(w), wv, ab)]]

filterList_openWindow(enr, wv, ab, minV, maxV, sel) ==
  LET l1 == SelectSeq(enr, LAMBDA b : Includes(b.waveTypes, wv))
      l2 == SelectSeq(l1, LAMBDA b : Includes(b.abilities, ab))
      l3 == SelectSeq(l2, LAMBDA b : b.volume > minV - 60 /\ b.volume < maxV + 60)
  IN IF Len(sel) # 0
       THEN SelectSeq(l3, LAMBDA b : Includes(sel, b.shaper))
       ELSE l3

\* Lines 155-159: the three filters, then the brand filter.
filterList(enr, wv, ab, minV, maxV, sel) ==
  LET l1 == SelectSeq(enr, LAMBDA b : Includes(b.waveTypes, wv))
      l2 == SelectSeq(l1, LAMBDA b : Includes(b.abilities, ab))
      l3 == SelectSeq(l2, LAMBDA b : b.volume >= minV - 60 /\ b.volume <= maxV + 60)
  IN IF Len(sel) # 0
       THEN SelectSeq(l3, LAMBDA b : Includes(sel, b.shaper))
       ELSE l3

sortList_sponsoredLast(list, minV, maxV, srt) ==
  LET target20 == minV + maxV
  IN CASE srt = "volume" ->
            SortStable(list, [i \in DOMAIN list |-> Abs(2 * list[i].volume - target20)])
       [] srt = "sponsored" ->
            SortStable(list, [i \in DOMAIN list |-> IF Sponsored(list[i]) THEN 1 ELSE 0])
       [] OTHER ->
            SortStable(list, [i \in DOMAIN list |-> -list[i]._score])

\* Lines 160-166: the sort switch, on the list the filters returned.
sortList(list, minV, maxV, srt) ==
  LET target20 == minV + maxV
  IN CASE srt = "volume" ->
            SortStable(list, [i \in DOMAIN list |-> Abs(2 * list[i].volume - target20)])
       [] srt = "sponsored" ->
            SortStable(list, [i \in DOMAIN list |-> IF Sponsored(list[i]) THEN -1 ELSE 0])
       [] OTHER ->
            SortStable(list, [i \in DOMAIN list |-> -list[i]._score])

\* Lines 154-167, the value of `filtered`.
filteredOf(enr, wv, ab, minV, maxV, srt, sel) ==
  sortList(filterList(enr, wv, ab, minV, maxV, sel), minV, maxV, srt)

\* Lines 154-167, what the run leaves in the `enriched` array: the filters
\* of lines 156-158 always copy, so the in-place sort never reaches it.
filteredLeaves(enr, wv, ab, minV, maxV, srt, sel) == enr

\* Line 171: the Map from shaper to its boards, as the list of its keys in
\* insertion order and the group of each key.
shaperKeys(list) ==
  LET first(i) == \A j \in 1..(i - 1) : list[j].shaper # list[i].shaper
      idx == SelectSeq([i \in DOMAIN list |-> i], first)
  IN [k \in DOMAIN idx |-> list[idx[k]].shaper]

shaperGroup(list, s) == SelectSeq(list, LAMBDA b : b.shaper = s)

topOfGroup_unsorted(arr) == arr[1]

\* Line 172: one entry per key, the first board of the group after sorting
\* the group by score, descending.
topOfGroup(arr) == SortStable(arr, [i \in DOMAIN arr |-> -arr[i]._score])[1]

\* Lines 169-174, the value of `topPicksByShaper`.
topPicksOf(flt) ==
  LET keys == shaperKeys(flt)
      tops == [k \in DOMAIN keys |->
                 [shaper |-> keys[k], board |-> topOfGroup(shaperGroup(flt, keys[k]))]]
  IN SortStable(tops, [i \in DOMAIN tops |-> -tops[i].board._score])

topPicksLeaves_sortsShared(flt) == SortStable(flt, [i \in DOMAIN flt |-> -flt[i]._score])

\* Lines 169-174, what the run leaves in the `filtered` array: each group is
\* an array of its own (line 171), so sorting a group never reaches it.
topPicksLeaves(flt) == flt

\* A render: line 150, then the three useMemo hooks, in order.  `enriched` is recomputed
\* when one of [boards, weight, wave, ability] changed; `filtered` when
\* `enriched` was recomputed or one of [wave, ability, minV, maxV, sort,
\* selectedShapers] changed; `topPicksByShaper` when `filtered` was
\* recomputed.  A hook that is not recomputed keeps its array, with whatever
\* a later hook did to it in place.
Render(boardsSet) ==
  LET enrRun == boardsSet \/ <<weight, wave, ability>>' # <<weight, wave, ability>>
      fltRun == \/ enrRun
                \/ sort' # sort
                \/ selectedShapers' # selectedShapers
      hv == heuristicVolume(NumberOfWeight(weight'), ability')
      enr0 == IF enrRun THEN enrichedOf(boards', weight', wave', ability') ELSE enriched
      flt0 == IF fltRun
                THEN filteredOf(enr0, wave', ability', hv[1], hv[2], sort', selectedShapers')
                ELSE filtered
      enr1 == IF fltRun
                THEN filteredLeaves(enr0, wave', ability', hv[1], hv[2], sort', selectedShapers')
                ELSE enr0
  IN /\ volRange' = hv
     /\ enriched' = enr1
     /\ filtered' = IF fltRun THEN topPicksLeaves(flt0) ELSE flt0
     /\ topPicksByShaper' = IF fltRun THEN topPicksOf(flt0) ELSE topPicksByShaper

\* The first render, every hook computed.
NoCsv ==
  /\ csvText = <<>>
  /\ csvBoards = NullArr

FirstRender ==
  /\ volRange = heuristicVolume(NumberOfWeight(weight), ability)
  /\ enriched = enrichedOf(boards, weight, wave, ability)
  /\ filtered = filteredOf(enriched, wave, ability, volRange[1], volRange[2], sort,
                           selectedShapers)
  /\ topPicksByShaper = topPicksOf(filtered)

\* ------------------------------------------------- the load effect

\* How a load's request went.  "pending" until known.
\*   fetch_reject  fetch() rejected (network error)
\*   bad_status    the response arrived with r.ok false: `throw new Error`
\*   body_reject   r.text() / r.json() rejected (read or decode error)
\*   ok            the body decoded to `data`
Outcomes == {"pending", "fetch_reject", "bad_status", "body_reject", "ok"}

NewLoad == [pc |-> "fetch", cancelled |-> FALSE, outcome |-> "pending", data |-> <<>>]

Last(s) == s[Len(s)]

\* What a step of the load effect leaves alone.
LoadFrame == UNCHANGED <<queryVars, compareIds, csvVars>>

\* Lines 132-135, 146: the effect runs; load() runs synchronously up to its
\* first await.  The effect has no dependencies, so it runs again only after
\* its cleanup has run (a re-mount).
Mount ==
  /\ LoadFrame
  /\ Len(loads) < MaxLoads
  /\ loads # <<>> => Last(loads).cancelled
  /\ loads' = Append(loads, NewLoad)
  /\ isLoading' = TRUE
  /\ error' = NullStr
  /\ UNCHANGED <<dataSource, boards>>
  /\ Render(FALSE)

\* Line 147: the cleanup of run l.
Cleanup(l) ==
  /\ LoadFrame
  /\ ~loads[l].cancelled
  /\ loads' = [loads EXCEPT ![l].cancelled = TRUE]
  /\ UNCHANGED <<dataSource, boards, isLoading, error>>
  /\ Render(FALSE)

\* Lines 138-139, the await of fetch(): it rejects, or resolves with a
\* response whose ok flag is false (the throw that follows rejects the inner
\* async function) or true (the body read starts).
FetchSettles(l) ==
  /\ LoadFrame
  /\ loads[l].pc = "fetch"
  /\ \E r \in {"fetch_reject", "bad_status", "ok_response"} :
       loads' = [loads EXCEPT ![l] =
                   IF r = "ok_response"
                     THEN [@ EXCEPT !.pc = "body"]
                     ELSE [@ EXCEPT !.pc = "rejected", !.outcome = r]]
  /\ UNCHANGED <<dataSource, boards, isLoading, error>>
  /\ Render(FALSE)

\* Lines 138-139, the await of r.text() / r.json(): it rejects, or the body
\* decodes (parseAirtableCSV for airtable, JSON for github) to a board list.
BodySettles(l) ==
  /\ LoadFrame
  /\ loads[l].pc = "body"
  /\ \/ loads' = [loads EXCEPT ![l] = [@ EXCEPT !.pc = "rejected", !.outcome = "body_reject"]]
     \/ \E d \in Feeds :
          loads' = [loads EXCEPT ![l] = [@ EXCEPT !.pc = "resolved", !.outcome = "ok", !.data = d]]
  /\ UNCHANGED <<dataSource, boards, isLoading, error>>
  /\ Render(FALSE)

\* Lines 140 and 144: the outer await resumes with the data; the finally
\* block runs in the same turn.
ResumeSuccess_unguarded(l) ==
  /\ LoadFrame
  /\ loads[l].pc = "resolved"
  /\ loads' = [loads EXCEPT ![l].pc = "done"]
  /\ boards' = Some(loads[l].data)
  /\ isLoading' = FALSE
  /\ UNCHANGED <<dataSource, error>>
  /\ Render(TRUE)

ResumeSuccess(l) ==
  /\ LoadFrame
  /\ loads[l].pc = "resolved"
  /\ loads' = [loads EXCEPT ![l].pc = "done"]
  /\ IF ~loads[l].cancelled
       THEN boards' = Some(loads[l].data) /\ isLoading' = FALSE
       ELSE UNCHANGED <<boards, isLoading>>
  /\ UNCHANGED <<dataSource, error>>
  /\ Render(~loads[l].cancelled)

\* Lines 141-144: the outer await throws; catch, then finally, in one turn.
CatchFailure_rethrows(l) ==
  /\ LoadFrame
  /\ loads[l].pc = "rejected"
  /\ loads' = [loads EXCEPT ![l].pc = "done"]
  /\ IF ~loads[l].cancelled
       THEN isLoading' = FALSE
       ELSE UNCHANGED isLoading
  /\ UNCHANGED <<dataSource, boards, error>>
  /\ Render(FALSE)

CatchFailure_noFinally(l) ==
  /\ LoadFrame
  /\ loads[l].pc = "rejected"
  /\ loads' = [loads EXCEPT ![l].pc = "done"]
  /\ IF ~loads[l].cancelled
       THEN /\ boards' = Some(FALLBACK_BOARDS)
            /\ error' = Some(WarningText(dataSource))
       ELSE UNCHANGED <<boards, error>>
  /\ UNCHANGED <<dataSource, isLoading>>
  /\ Render(~loads[l].cancelled)

CatchFailure(l) ==
  /\ LoadFrame
  /\ loads[l].pc = "rejected"
  /\ loads' = [loads EXCEPT ![l].pc = "done"]
  /\ IF ~loads[l].cancelled
       THEN /\ boards' = Some(FALLBACK_BOARDS)
            /\ error' = Some(WarningText(dataSource))
            /\ isLoading' = FALSE
       ELSE UNCHANGED <<boards, error, isLoading>>
  /\ UNCHANGED dataSource
  /\ Render(~loads[l].cancelled)

\* ------------------------------------------------- the page, loading

InitQuery ==
  /\ weight = 80
  /\ ability = "intermediate"
  /\ wave = "mellow_point"
  /\ sort = "best"
  /\ selectedShapers = <<>>

Init ==
  /\ dataSource \in DATA_SOURCES
  /\ boards = NullArr
  /\ isLoading = TRUE
  /\ error = NullStr
  /\ loads = <<>>
  /\ InitQuery
  /\ compareIds = <<>>
  /\ NoCsv
  /\ FirstRender

Next ==
  \/ Mount
  \/ \E l \in DOMAIN loads : Cleanup(l)
  \/ \E l \in DOMAIN loads : FetchSettles(l)
  \/ \E l \in DOMAIN loads : BodySettles(l)
  \/ \E l \in DOMAIN loads : ResumeSuccess(l)
  \/ \E l \in DOMAIN loads : CatchFailure(l)

Spec == Init /\ [][Next]_vars

\* The step of load l that follows its await, as `loads` shows it: the step
\* ResumeSuccess(l) or CatchFailure(l), and no other step of Next.
Resumes(l) ==
  /\ l \in DOMAIN loads
  /\ loads[l].pc \in {"resolved", "rejected"}
  /\ loads' = [loads EXCEPT ![l].pc = "done"]

\* The load with its scheduling.  Once the awaited request has settled, the
\* continuation of load() after line 139 is a job of the microtask queue,
\* which the engine runs: the success path or the catch path is taken when
\* it can be.  Nothing makes the network answer, and nothing makes the
\* component mount again or unmount.
SpecLoad ==
  /\ Init
  /\ [][Next]_vars
  /\ \A l \in 1..MaxLoads : WF_loads(Resumes(l))

\* ------------------------------------------------- properties: the load

Failed(l) == loads[l].outcome \in {"fetch_reject", "bad_status", "body_reject"}
Ended(l) == loads[l].pc = "done" /\ ~loads[l].cancelled

\* C1.  The load never raises past its boundary.  For either source kind,
\* a load that was not cancelled and whose fetch threw, returned a
\* non-success status or failed to decode ends with the catalog equal to the
\* three fallback boards and a warning that names the source kind; one whose
\* body decoded ends with the catalog equal to the decoded feed and no
\* warning.  Every settled request is taken to its end by the success or the
\* catch path: none is left where neither applies.
C1_LoadNeverRaises ==
  \A l \in DOMAIN loads :
    /\ loads[l].pc \in {"fetch", "body", "resolved", "rejected", "done"}
    /\ loads[l].pc = "rejected" <=> (Failed(l) /\ loads[l].pc # "done")
    /\ (Ended(l) /\ Failed(l)) =>
         /\ boards = Some(FALLBACK_BOARDS)
         /\ Len(FALLBACK_BOARDS) = 3
         /\ error.some
         /\ Includes(error.val, dataSource)
         /\ ~isLoading
    /\ (Ended(l) /\ loads[l].outcome = "ok") =>
         /\ boards = Some(loads[l].data)
         /\ error = NullStr

\* C1, its case: a load of the CSV source decoded and was applied; after a
\* re-mount the next load met a non-success status and ended uncancelled.
C1_Witness ==
  /\ Len(loads) = 2
  /\ Ended(2)
  /\ loads[2].outcome = "bad_status"
  /\ loads[1].outcome = "ok" /\ loads[1].pc = "done"
  /\ dataSource = "airtable"

\* C2.  Once a load is cancelled, no later step of that load changes the
\* catalog, the warning or the loading flag.
C2_CancelledLoadIsDiscarded ==
  [][\A l \in DOMAIN loads :
       (loads[l].cancelled /\ loads'[l] # loads[l])
         => UNCHANGED <<boards, error, isLoading>>]_vars

\* C2, its case: a cancelled load ran to its end with a decoded feed, and a
\* cancelled load ran to its end through the catch path, and neither shows.
C2_Witness ==
  /\ Len(loads) = 2
  /\ loads[1].cancelled /\ loads[1].pc = "done" /\ loads[1].outcome = "ok"
  /\ loads[1].data # <<>>
  /\ loads[2].cancelled /\ loads[2].pc = "done" /\ Failed(2)
  /\ boards = NullArr
  /\ error = NullStr
  /\ isLoading

\* The awaited request of load l has settled: resolved with the decoded
\* feed, or rejected.
Settled(l) == l \in DOMAIN loads /\ loads[l].pc \in {"resolved", "rejected", "done"}

\* Load l is not cancelled.
Live(l) == l \in DOMAIN loads => ~loads[l].cancelled

\* What load l sets the catalog to.
ResultOf(l) ==
  IF loads[l].outcome = "ok" THEN Some(loads[l].data) ELSE Some(FALLBACK_BOARDS)

\* C14, as amended.  If a load is never cancelled and its request settles
\* (the fetch rejects or answers without success, or after a success answer
\* the reading of the body ends), the loading flag becomes false and stays
\* false.  Whenever the loading flag is false
\* after a load was started, the catalog is set, to the decoded feed of a
\* load or to the fallback boards.  The loading flag is cleared only in a
\* step of a load that ends it, with the catalog set to that load's result.
C14_LoadingFlagClears ==
  /\ \A l \in 1..MaxLoads : ([]Live(l) /\ <>Settled(l)) => <>[](~isLoading)
  /\ []((loads # <<>> /\ ~isLoading) =>
          /\ boards.some
          /\ \/ boards = Some(FALLBACK_BOARDS)
             \/ \E l \in DOMAIN loads : loads[l].outcome = "ok" /\ boards = Some(loads[l].data))
  /\ [][(isLoading /\ ~isLoading') =>
          \E l \in DOMAIN loads :
            /\ loads[l].pc # "done"
            /\ loads'[l].pc = "done"
            /\ ~loads[l].cancelled
            /\ boards' = ResultOf(l)]_vars

\* The await of fetch() of load l is over: it rejected, or it resolved with
\* a response.
FetchSettled(l) == l \in DOMAIN loads /\ loads[l].pc # "fetch"

\* C14, as stated.  If a load is never cancelled and its fetch settles,
\* resolving or rejecting, the loading flag becomes false and stays false;
\* whenever the flag is false after a load was started the catalog is set,
\* and the flag is never cleared before the catalog is set.
C14_FetchSettlesSuffices ==
  /\ \A l \in 1..MaxLoads : ([]Live(l) /\ <>FetchSettled(l)) => <>[](~isLoading)
  /\ []((loads # <<>> /\ ~isLoading) => boards.some)
  /\ [][(isLoading /\ ~isLoading') => boards'.some]_vars

\* C14, its case: after a load that was cancelled and ran to its end, the
\* next load's request was rejected and the load ended: the flag is false
\* and the catalog is the fallback.
C14_Witness ==
  /\ Len(loads) = 2
  /\ loads[1].cancelled /\ loads[1].pc = "done"
  /\ loads[2].pc = "done" /\ ~loads[2].cancelled /\ loads[2].outcome = "fetch_reject"
  /\ ~isLoading
  /\ boards = Some(FALLBACK_BOARDS)

\* ------------------------------------------------- the page, ranking

\* Longest catalog.
MaxBoards == 3

\* The boards catalogs are made of.  At 80 kg, intermediate, the heuristic
\* is [30.4, 37.6], the target 34.0 and the window [24.4, 43.6].
Pool ==
  { [id |-> "a1", shaper |-> "Alpha", model |-> "One",
     waveTypes |-> <<"mellow_point", "overhead">>, abilities |-> <<"intermediate", "advanced">>,
     recommendedWeight |-> <<65, 95>>, volume |-> 320, sponsored |-> TRUE],
    [id |-> "a2", shaper |-> "Alpha", model |-> "Two",
     waveTypes |-> <<"mellow_point", "overhead">>, abilities |-> <<"intermediate", "advanced">>,
     recommendedWeight |-> <<80, 95>>, volume |-> 340],
    [id |-> "a3", shaper |-> "Alpha", model |-> "Three",
     waveTypes |-> <<"mellow_point">>, abilities |-> <<"beginner", "intermediate">>,
     recommendedWeight |-> <<81, 110>>, volume |-> 244, sponsored |-> FALSE],
    [id |-> "b1", shaper |-> "Beta", model |-> "One",
     waveTypes |-> <<"small_beach", "mellow_point">>, abilities |-> <<"intermediate">>,
     recommendedWeight |-> <<65, 95>>, volume |-> 340, sponsored |-> TRUE],
    [id |-> "b2", shaper |-> "Beta", model |-> "Two",
     waveTypes |-> <<"mellow_point", "overhead">>, abilities |-> <<"beginner", "intermediate">>,
     recommendedWeight |-> <<60, 98>>, volume |-> 436] }

\* The sequences of at most n elements of S, none repeated.
RECURSIVE SeqsNoRepeat(_, _)
SeqsNoRepeat(S, n) ==
  IF n = 0 THEN {<<>>}
  ELSE LET shorter == SeqsNoRepeat(S, n - 1)
           longest == {q \in shorter : Len(q) = n - 1}
       IN shorter \cup
          UNION {{Append(q, x) : x \in {y \in S : ~Includes(q, y)}} : q \in longest}

\* The catalogs a feed can hold: boards of the pool, each at most once.
Catalogs == SeqsNoRepeat(Pool, MaxBoards)

\* The weights and the wave types the shopper picks.
Weights == {80, 98}
Waves == {"mellow_point", "overhead"}

\* Line 152: the shapers offered as filter buttons.
allShapers == {enriched[i].shaper : i \in DOMAIN enriched}

RankFrame == UNCHANGED <<loadVars, compareIds, csvVars>>

\* Line 211.
setWeight(w) ==
  /\ RankFrame
  /\ weight' = w
  /\ UNCHANGED <<ability, wave, sort, selectedShapers>>
  /\ Render(FALSE)

\* Line 219.
setAbility(a) ==
  /\ RankFrame
  /\ ability' = a
  /\ UNCHANGED <<weight, wave, sort, selectedShapers>>
  /\ Render(FALSE)

\* Line 213.
setWave(v) ==
  /\ RankFrame
  /\ wave' = v
  /\ UNCHANGED <<weight, ability, sort, selectedShapers>>
  /\ Render(FALSE)

\* Lines 225, 350.
setSort(s) ==
  /\ RankFrame
  /\ sort' = s
  /\ UNCHANGED <<weight, ability, wave, selectedShapers>>
  /\ Render(FALSE)

\* Lines 178, 254.
toggleShaper(s) ==
  /\ RankFrame
  /\ selectedShapers' = IF Includes(selectedShapers, s)
                          THEN SelectSeq(selectedShapers, LAMBDA x : x # s)
                          ELSE Append(selectedShapers, s)
  /\ UNCHANGED <<weight, ability, wave, sort>>
  /\ Render(FALSE)

\* The page after a load that delivered catalog c, first render done.
InitRank ==
  /\ dataSource \in {"github"}
  /\ \E c \in Catalogs :
       /\ boards = Some(c)
       /\ loads = <<[pc |-> "done", cancelled |-> FALSE, outcome |-> "ok", data |-> c]>>
  /\ isLoading = FALSE
  /\ error = NullStr
  /\ InitQuery
  /\ compareIds = <<>>
  /\ NoCsv
  /\ FirstRender

NextRank ==
  \/ \E w \in Weights : setWeight(w)
  \/ \E a \in ABILITIES : setAbility(a)
  \/ \E v \in Waves : setWave(v)
  \/ \E s \in SORTS : setSort(s)
  \/ \E s \in allShapers : toggleShaper(s)

SpecRank == InitRank /\ [][NextRank]_vars

\* ------------------------------------------------- properties: ranking

\* A scored board without its score: the catalog board it was made from.
Unscored(b) == [k \in DOMAIN b \ {"_score"} |-> b[k]]

Catalog == IF boards.some THEN boards.val ELSE <<>>

\* Where a scored board stands in the catalog.
CatalogIndex(b) == CHOOSE i \in DOMAIN Catalog : Catalog[i] = Unscored(b)

Range(q) == {q[i] : i \in DOMAIN q}

\* The window test of the claim, on the heuristic of the present query.
InWindow(b) ==
  /\ b.volume >= heuristicVolume(weight, ability)[1] - 60
  /\ b.volume <= heuristicVolume(weight, ability)[2] + 60

\* The boards of the catalog the claim keeps.
Kept ==
  {b \in Range(Catalog) :
     /\ wave \in Range(b.waveTypes)
     /\ ability \in Range(b.abilities)
     /\ InWindow(b)
     /\ (selectedShapers # <<>> => b.shaper \in Range(selectedShapers))}

\* C3.  topPicksByShaper holds no two entries of one brand, holds an entry
\* for exactly the brands of the filtered list, and each entry's board is a
\* board of that brand in the filtered list with the highest score of the
\* brand, the first such board of the list; in every sort mode.
C3_TopPerBrand ==
  /\ \A i, j \in DOMAIN topPicksByShaper :
       topPicksByShaper[i].shaper = topPicksByShaper[j].shaper => i = j
  /\ {topPicksByShaper[i].shaper : i \in DOMAIN topPicksByShaper}
       = {filtered[i].shaper : i \in DOMAIN filtered}
  /\ \A t \in DOMAIN topPicksByShaper :
       LET e == topPicksByShaper[t]
       IN \E i \in DOMAIN filtered :
            /\ filtered[i] = e.board
            /\ filtered[i].shaper = e.shaper
            /\ \A j \in DOMAIN filtered :
                 filtered[j].shaper = e.shaper =>
                   /\ filtered[j]._score <= filtered[i]._score
                   /\ filtered[j]._score = filtered[i]._score => i <= j

\* C3, its case: under the sponsored sort a brand has two boards of equal
\* top score, and a third board of the brand scores less yet stands first.
C3_Witness ==
  /\ sort = "sponsored"
  /\ Len(topPicksByShaper) = 2
  /\ \E i, j \in DOMAIN filtered :
       /\ i < j
       /\ filtered[i].shaper = filtered[j].shaper
       /\ filtered[i]._score < filtered[j]._score
       /\ topPicksByShaper[1].board = filtered[j] \/ topPicksByShaper[2].board = filtered[j]

\* C4.  The filtered list holds exactly the catalog boards whose waveTypes
\* holds the wave, whose abilities holds the ability, whose volume is in
\* [heuristicMin - 6, heuristicMax + 6], end points included, and, when the
\* brand filter is not empty, whose shaper is in it; each once.
C4_FilterExact ==
  /\ {Unscored(filtered[i]) : i \in DOMAIN filtered} = Kept
  /\ Len(filtered) = Cardinality(Kept)

\* C4, its case: a board on the lower end point of the window and a board
\* on the upper one are kept; then a brand filter is set and drops one.
C4_Witness ==
  /\ \E i \in DOMAIN Catalog : Catalog[i].volume = volRange[1] - 60
  /\ \E i \in DOMAIN Catalog : Catalog[i].volume = volRange[2] + 60
  /\ \A i \in DOMAIN Catalog :
       /\ wave \in Range(Catalog[i].waveTypes)
       /\ ability \in Range(Catalog[i].abilities)
       /\ InWindow(Catalog[i])
  /\ selectedShapers # <<>>
  /\ Len(filtered) = 1
  /\ Len(Catalog) = 3

\* C4, the empty cases: an empty catalog, and a catalog none of whose boards
\* match, give empty lists.
C4_WitnessEmpty ==
  /\ Catalog # <<>>
  /\ filtered = <<>>
  /\ topPicksByShaper = <<>>

\* C5.  Under the sponsored sort every sponsored board stands before every
\* board that is not (a board with no flag is not), and within each of the
\* two groups the boards stand in catalog order.
C5_SponsoredFirst ==
  sort = "sponsored" =>
    \A i, j \in DOMAIN filtered :
      i < j =>
        /\ Sponsored(filtered[j]) => Sponsored(filtered[i])
        /\ Sponsored(filtered[i]) = Sponsored(filtered[j])
             => CatalogIndex(filtered[i]) < CatalogIndex(filtered[j])

\* C5, its case: a sponsored board moved before two boards that are not,
\* one with the flag false and one without the flag.
C5_Witness ==
  /\ sort = "sponsored"
  /\ Len(filtered) = 3
  /\ Sponsored(filtered[1])
  /\ CatalogIndex(filtered[1]) = 3
  /\ \E i \in {2, 3} : "sponsored" \notin DOMAIN filtered[i]
  /\ \E i \in {2, 3} : "sponsored" \in DOMAIN filtered[i]

\* C6.  Every board's score is 100 - 1.5 * min(|volume - target|, 40), the
\* target being the midpoint of the heuristic, plus 10 for the wave, plus 8
\* for the ability, plus 6 if the weight is within recommendedWeight (end
\* points included) and minus 6 if not, plus 3 if sponsored, unclamped; a
\* board at the target that matches on everything and is sponsored scores
\* 127, and none scores more.  (Fortieths of a point: 127 is 5080.)
C6_ScoreFormula ==
  \A i \in DOMAIN enriched :
    LET b == enriched[i]
        hv == heuristicVolume(weight, ability)
        diff20 == Abs(2 * b.volume - (hv[1] + hv[2]))
        capped == IF diff20 > 800 THEN 800 ELSE diff20
        inWave == wave \in Range(b.waveTypes)
        inAbility == ability \in Range(b.abilities)
        inWeight == b.recommendedWeight[1] <= weight /\ weight <= b.recommendedWeight[2]
        flagged == "sponsored" \in DOMAIN b /\ b.sponsored = TRUE
    IN /\ b._score = 4000 - 3 * capped
                       + (IF inWave THEN 400 ELSE 0)
                       + (IF inAbility THEN 320 ELSE 0)
                       + (IF inWeight THEN 240 ELSE -240)
                       + (IF flagged THEN 120 ELSE 0)
       /\ b._score <= 5080
       /\ (diff20 = 0 /\ inWave /\ inAbility /\ inWeight /\ flagged) => b._score = 5080

\* C6, its case: a board scores 127, another is out of the weight range at
\* its very end point's neighbour, and a third is on the end point.
C6_Witness ==
  /\ \E i \in DOMAIN enriched : enriched[i]._score = 5080
  /\ \E i \in DOMAIN enriched : enriched[i].recommendedWeight[1] = weight + 1
  /\ \E i \in DOMAIN enriched : enriched[i].recommendedWeight[1] = weight

\* C8.  The views are a function of the catalog and the query alone: in
\* every state, whatever was computed before, `enriched`, `filtered` (all)
\* and `topPicksByShaper` are what a first computation from the present
\* catalog and query gives, order included; so computing them again gives
\* the same, and computing the top picks has not reordered `filtered`.
C8_Idempotent ==
  LET hv == heuristicVolume(NumberOfWeight(weight), ability)
      enr == enrichedOf(boards, weight, wave, ability)
      flt == filteredOf(enr, wave, ability, hv[1], hv[2], sort, selectedShapers)
  IN /\ enriched = enr
     /\ [i \in DOMAIN enriched |-> Unscored(enriched[i])] = Catalog
     /\ filtered = flt
     /\ topPicksByShaper = topPicksOf(flt)

\* C8, its case: the views were computed again (the brand filter set and
\* cleared again) under a sort that is not by score, with top picks whose
\* order by score differs from the order of the list.
C8_Witness ==
  /\ sort = "sponsored"
  /\ selectedShapers = <<>>
  /\ Len(filtered) = 3
  /\ \E i, j \in DOMAIN filtered : i < j /\ filtered[i]._score < filtered[j]._score
  /\ filtered[1].shaper = filtered[2].shaper
  /\ Len(topPicksByShaper) = 2

\* ------------------------------------------------- the page, the heuristic

\* Largest weight typed, in kilograms; the field takes any number, so the
\* negatives of the weights are typed too.
MaxWeight == 130

\* The page after a load that delivered an empty feed.
InitVolume ==
  /\ dataSource \in {"github"}
  /\ boards = Some(<<>>)
  /\ loads = <<[pc |-> "done", cancelled |-> FALSE, outcome |-> "ok", data |-> <<>>]>>
  /\ isLoading = FALSE
  /\ error = NullStr
  /\ InitQuery
  /\ compareIds = <<>>
  /\ NoCsv
  /\ FirstRender

NextVolume ==
  \/ \E w \in (-MaxWeight)..MaxWeight : setWeight(w)
  \/ \E a \in ABILITIES : setAbility(a)

SpecVolume == InitVolume /\ [][NextVolume]_vars

\* C7.  For every weight above 0 and every ability the lower bound of the
\* heuristic, rounded to one decimal, is at most the upper bound, rounded.
C7_MinAtMostMax ==
  weight > 0 => volRange[1] <= volRange[2]

\* C7, its case: a weight above 0 both of whose products end in a 5 at the
\* hundredths, so that both bounds were rounded at a half.
C7_Witness ==
  /\ weight > 0
  /\ ability = "beginner"
  /\ (weight * 45) % 10 = 5
  /\ volRange[1] * 10 = weight * 45 + 5
  /\ volRange[2] * 10 = weight * 55 + 5

\* A number of hundredths rounded to tenths, a half going away from zero.
HalfAwayFromZero(n100) ==
  IF n100 >= 0 THEN (n100 + 5) \div 10 ELSE -((5 - n100) \div 10)

\* C11.  For every weight, the non-positive ones too, both bounds of the
\* heuristic are the products of the weight and the ability's fractions
\* rounded to one decimal place with a half going away from zero, and a
\* non-positive weight gives bounds that are not positive.
C11_RoundsHalfAwayFromZero ==
  /\ volRange[1] = HalfAwayFromZero(weight * mult(ability)[1])
  /\ volRange[2] = HalfAwayFromZero(weight * mult(ability)[2])
  /\ weight <= 0 => (volRange[1] <= 0 /\ volRange[2] <= 0)

\* ------------------------------------------------- the page, comparing

\* Boards of the feed shown while comparing.
MaxShown == 5

CompareFeedIds == <<"c1", "c2", "c3", "c4", "c5", "c6", "c7", "c8">>

\* A feed of MaxShown boards that all match the first query.
CompareFeed ==
  [i \in 1..MaxShown |->
     [id |-> CompareFeedIds[i], shaper |-> "Alpha", model |-> CompareFeedIds[i],
      waveTypes |-> <<"mellow_point">>, abilities |-> <<"intermediate">>,
      recommendedWeight |-> <<65, 95>>, volume |-> 340]]

CompareFrame == UNCHANGED <<loadVars, queryVars, memoVars, csvVars>>

\* Line 176, called with the id of a board card (lines 269, 279, 390).
toggleCompare_unbounded(id) ==
  /\ CompareFrame
  /\ compareIds' = IF Includes(compareIds, id)
                     THEN SelectSeq(compareIds, LAMBDA x : x # id)
                     ELSE Append(compareIds, id)

toggleCompare(id) ==
  /\ CompareFrame
  /\ compareIds' = IF Includes(compareIds, id)
                     THEN SelectSeq(compareIds, LAMBDA x : x # id)
                     ELSE IF Len(compareIds) < 4
                            THEN Append(compareIds, id)
                            ELSE compareIds

\* Line 297, called with the id of a board of the drawer (lines 402, 409).
onRemove(id) ==
  /\ CompareFrame
  /\ compareIds' = SelectSeq(compareIds, LAMBDA x : x # id)

\* Line 299; the drawer shows while compareIds is not empty (line 294).
Clear ==
  /\ CompareFrame
  /\ Len(compareIds) > 0
  /\ compareIds' = <<>>

\* The ids of the board cards on the page (lines 269 and 279).
CardIds ==
  {filtered[i].id : i \in DOMAIN filtered}
    \cup {topPicksByShaper[i].board.id : i \in DOMAIN topPicksByShaper}

\* The ids of the boards of the drawer (line 402).
DrawerIds == {b.id : b \in {c \in Range(Catalog) : Includes(compareIds, c.id)}}

InitCompare ==
  /\ dataSource \in {"github"}
  /\ boards = Some(CompareFeed)
  /\ loads = <<[pc |-> "done", cancelled |-> FALSE, outcome |-> "ok", data |-> CompareFeed]>>
  /\ isLoading = FALSE
  /\ error = NullStr
  /\ InitQuery
  /\ compareIds = <<>>
  /\ NoCsv
  /\ FirstRender

NextCompare ==
  \/ \E id \in CardIds : toggleCompare(id)
  \/ \E id \in DrawerIds : onRemove(id)
  \/ Clear

SpecCompare == InitCompare /\ [][NextCompare]_vars

\* C10.  After any sequence of toggle, remove and clear the compared ids
\* are at most 4 and no id is there twice; toggling an id that is selected
\* removes it, and toggling a new id when 4 are selected changes nothing.
C10_AtMostFour ==
  [][/\ Len(compareIds') <= 4
     /\ \A i, j \in DOMAIN compareIds' : compareIds'[i] = compareIds'[j] => i = j
     /\ \A id \in CardIds :
          toggleCompare(id) =>
            /\ Includes(compareIds, id) =>
                 /\ ~Includes(compareIds', id)
                 /\ Len(compareIds') = Len(compareIds) - 1
            /\ (~Includes(compareIds, id) /\ Len(compareIds) = 4) =>
                 compareIds' = compareIds
            /\ (~Includes(compareIds, id) /\ Len(compareIds) < 4) =>
                 compareIds' = Append(compareIds, id)]_vars

\* C10, its case: four boards are selected and a fifth is on the page.
C10_Witness ==
  /\ Len(compareIds) = 4
  /\ \E id \in CardIds : ~Includes(compareIds, id)

\* ------------------------------------------------- CSV ingestion

\* A string is the sequence of its characters.
WhiteSpace == {" ", "\t", "\r", "\n"}

\* String.prototype.split on a one-character separator.
RECURSIVE SplitOn(_, _)
SplitOn(str, sep) ==
  IF \A i \in DOMAIN str : str[i] # sep
    THEN <<str>>
    ELSE LET k == CHOOSE i \in DOMAIN str :
                    str[i] = sep /\ \A j \in 1..(i - 1) : str[j] # sep
         IN <<SubSeq(str, 1, k - 1)>> \o SplitOn(SubSeq(str, k + 1, Len(str)), sep)

\* String.prototype.trim.
RECURSIVE Trim(_)
Trim(str) ==
  IF str = <<>> THEN str
  ELSE IF Head(str) \in WhiteSpace THEN Trim(Tail(str))
  ELSE IF str[Len(str)] \in WhiteSpace THEN Trim(SubSeq(str, 1, Len(str) - 1))
  ELSE str

\* Line 91: csv.split(/\r?\n/).filter(Boolean).  A "\r" is part of the
\* separator only when a "\n" follows it: of the pieces between the "\n"s,
\* every one but the last loses one trailing "\r".  Empty pieces go.
csvRows(csv) ==
  LET parts == SplitOn(csv, "\n")
      piece(i) == IF i < Len(parts) /\ parts[i] # <<>> /\ parts[i][Len(parts[i])] = "\r"
                    THEN SubSeq(parts[i], 1, Len(parts[i]) - 1)
                    ELSE parts[i]
  IN SelectSeq([i \in DOMAIN parts |-> piece(i)], LAMBDA r : r # <<>>)

\* Line 92: rows[0].split(",").map(h => h.trim()).
csvHeaders(row) ==
  LET hs == SplitOn(row, ",") IN [i \in DOMAIN hs |-> Trim(hs[i])]

\* Lines 86-88, the loop: line[i..] is scanned with `out`, `cur`, `inQ`.
RECURSIVE scanRow(_, _, _, _, _)
scanRow(line, i, out, cur, inQ) ==
  IF i > Len(line) THEN Append(out, cur)
  ELSE IF line[i] = "\"" THEN scanRow(line, i + 1, out, cur, ~inQ)
  ELSE IF line[i] = "," /\ ~inQ THEN scanRow(line, i + 1, Append(out, cur), <<>>, inQ)
  ELSE scanRow(line, i + 1, out, Append(cur, line[i]), inQ)

\* Lines 85-89: the fields, or null when there are fewer than expected.
safeParseCSVRow(line, expected) ==
  LET out == scanRow(line, 1, <<>>, <<>>, FALSE)
  IN IF Len(out) >= expected THEN Some(out) ELSE NullArr

\* The column names of lines 96-112.
K_id == <<"i", "d">>
K_shaper == <<"s", "h", "a", "p", "e", "r">>
K_model == <<"m", "o", "d", "e", "l">>
K_waveTypes == <<"w", "a", "v", "e", "T", "y", "p", "e", "s">>
K_abilities == <<"a", "b", "i", "l", "i", "t", "i", "e", "s">>
K_recommendedWeightMin ==
  <<"r", "e", "c", "o", "m", "m", "e", "n", "d", "e", "d", "W", "e", "i", "g", "h", "t", "M", "i", "n">>
K_recommendedWeightMax ==
  <<"r", "e", "c", "o", "m", "m", "e", "n", "d", "e", "d", "W", "e", "i", "g", "h", "t", "M", "a", "x">>
K_length == <<"l", "e", "n", "g", "t", "h">>
K_volume == <<"v", "o", "l", "u", "m", "e">>
K_tail == <<"t", "a", "i", "l">>
K_fins == <<"f", "i", "n", "s">>
K_construction == <<"c", "o", "n", "s", "t", "r", "u", "c", "t", "i", "o", "n">>
K_img == <<"i", "m", "g">>
K_sponsored == <<"s", "p", "o", "n", "s", "o", "r", "e", "d">>

\* Lines 92 and 96-112: cols[idx(k)] || "", idx(k) being headers.indexOf(k).
\* A column that is not in the header reads cols[-1], undefined, so "".
col(cols, headers, k) ==
  IF \A h \in DOMAIN headers : headers[h] # k
    THEN <<>>
    ELSE LET x == CHOOSE h \in DOMAIN headers :
                    headers[h] = k /\ \A g \in 1..(h - 1) : headers[g] # k
         IN IF x \in DOMAIN cols THEN cols[x] ELSE <<>>

UpperCase == <<"A", "B", "C", "D", "E", "F", "G", "H", "I", "J", "K", "L", "M",
               "N", "O", "P", "Q", "R", "S", "T", "U", "V", "W", "X", "Y", "Z">>
LowerCase == <<"a", "b", "c", "d", "e", "f", "g", "h", "i", "j", "k", "l", "m",
               "n", "o", "p", "q", "r", "s", "t", "u", "v", "w", "x", "y", "z">>

\* String.prototype.toLowerCase.
toLowerCase(str) ==
  [i \in DOMAIN str |->
     IF \E u \in DOMAIN UpperCase : UpperCase[u] = str[i]
       THEN LowerCase[CHOOSE u \in DOMAIN UpperCase : UpperCase[u] = str[i]]
       ELSE str[i]]

\* str.replace(/\s+/g, "-"), line 100: each run of white space becomes "-".
RECURSIVE dashSpaces(_)
dashSpaces(str) ==
  IF str = <<>> THEN <<>>
  ELSE IF Head(str) \notin WhiteSpace THEN <<Head(str)>> \o dashSpaces(Tail(str))
  ELSE IF Len(str) > 1 /\ str[2] \in WhiteSpace THEN dashSpaces(Tail(str))
  ELSE <<"-">> \o dashSpaces(Tail(str))

\* str.replaceAll(" ", ""), lines 96-97.
noSpaces(str) == SelectSeq(str, LAMBDA c : c # " ")

Digits == <<"0", "1", "2", "3", "4", "5", "6", "7", "8", "9">>

\* String(i) of a whole number i >= 0, line 100.
RECURSIVE numberToString(_)
numberToString(i) ==
  IF i < 10 THEN <<Digits[i + 1]>>
  ELSE numberToString(i \div 10) \o <<Digits[(i % 10) + 1]>>

\* A number read from a field: a value, or NaN.
NaN == [nan |-> TRUE, val |-> 0]
Num(v) == [nan |-> FALSE, val |-> v]

RECURSIVE digitsValue(_, _)
digitsValue(str, acc) ==
  IF str = <<>> THEN acc
  ELSE digitsValue(Tail(str),
         10 * acc + (CHOOSE d \in 0..9 : Digits[d + 1] = Head(str)))

\* Number(x || 0), lines 105 and 107, of a field of digits, white space and
\* the letters x and Y: "" gives Number(0); white space alone gives 0; digits with
\* white space around them give their value; anything else gives NaN.
NumberOrZero(str) ==
  LET t == Trim(str)
  IN IF t = <<>> THEN Num(0)
     ELSE IF \A i \in DOMAIN t : \E d \in DOMAIN Digits : Digits[d] = t[i]
       THEN Num(digitsValue(t, 0))
     ELSE NaN

\* Lines 103-104: the list of a multi-valued field.
multiValue(raw) ==
  LET v == noSpaces(raw)
  IN IF v = <<>> THEN <<>>
     ELSE IF Includes(v, "|") THEN SplitOn(v, "|")
     ELSE SplitOn(v, ",")

SponsoredWords ==
  { <<"1">>, <<"t", "r", "u", "e">>, <<"y", "e", "s">>, <<"y">> }

\* Lines 96-113: the board pushed for the fields `cols` of rows[i].
csvBoard(cols, headers, i) ==
  LET shaper == col(cols, headers, K_shaper)
      model == col(cols, headers, K_model)
      id == col(cols, headers, K_id)
  IN [id |-> IF id # <<>> THEN id
             ELSE dashSpaces(toLowerCase(
                    shaper \o <<"-">> \o (IF model # <<>> THEN model ELSE numberToString(i)))),
      shaper |-> shaper,
      model |-> model,
      waveTypes |-> multiValue(col(cols, headers, K_waveTypes)),
      abilities |-> multiValue(col(cols, headers, K_abilities)),
      recommendedWeight |-> <<NumberOrZero(col(cols, headers, K_recommendedWeightMin)),
                              NumberOrZero(col(cols, headers, K_recommendedWeightMax))>>,
      length |-> col(cols, headers, K_length),
      volume |-> NumberOrZero(col(cols, headers, K_volume)),
      tail |-> col(cols, headers, K_tail),
      fins |-> col(cols, headers, K_fins),
      construction |-> col(cols, headers, K_construction),
      img |-> col(cols, headers, K_img),
      sponsored |-> toLowerCase(col(cols, headers, K_sponsored)) \in SponsoredWords]

RECURSIVE csvLoop_aborts(_, _, _, _)
csvLoop_aborts(rows, headers, i, out) ==
  IF i >= Len(rows) THEN out
  ELSE LET cols == safeParseCSVRow(rows[i + 1], Len(headers))
       IN IF ~cols.some
            THEN out
            ELSE csvLoop_aborts(rows, headers, i + 1,
                                Append(out, csvBoard(cols.val, headers, i)))

\* Lines 94-114, the loop from rows[i] on (i counts from 0, as in the code).
RECURSIVE csvLoop(_, _, _, _)
csvLoop(rows, headers, i, out) ==
  IF i >= Len(rows) THEN out
  ELSE LET cols == safeParseCSVRow(rows[i + 1], Len(headers))
       IN IF ~cols.some
            THEN csvLoop(rows, headers, i + 1, out)
            ELSE csvLoop(rows, headers, i + 1, Append(out, csvBoard(cols.val, headers, i)))

\* Lines 90-116.
parseAirtableCSV(csv) ==
  LET rows == csvRows(csv)
  IN IF Len(rows) = 0 THEN <<>>
     ELSE csvLoop(rows, csvHeaders(rows[1]), 1, <<>>)

\* Longest text after the header line's first characters.
MaxCsvTail == 5

\* The characters of that text.
CsvChars == {"x", ",", "\"", "\n"}

\* How the texts start: two known columns and a CR (a CRLF line end when a
\* "\n" follows), one known column, a quoted column name with a comma in it.
CsvStarts ==
  { K_id \o <<",">> \o K_shaper \o <<"\r">>,
    K_model,
    <<"\"", "x", ",", "x", "\"", ",">> \o K_id }

RECURSIVE SeqsUpTo(_, _)
SeqsUpTo(S, n) ==
  IF n = 0 THEN {<<>>}
  ELSE LET shorter == SeqsUpTo(S, n - 1)
       IN shorter \cup {Append(q, x) : q \in {r \in shorter : Len(r) = n - 1}, x \in S}

CsvTexts == {h \o t : h \in CsvStarts, t \in SeqsUpTo(CsvChars, MaxCsvTail)}

\* Line 138: parseAirtableCSV(await r.text()).
ParseCsv ==
  /\ ~csvBoards.some
  /\ csvBoards' = Some(parseAirtableCSV(csvText))
  /\ UNCHANGED <<loadVars, queryVars, memoVars, compareIds, csvText>>

\* The page of the CSV source, the body of the response read.
InitCsv ==
  /\ dataSource = "airtable"
  /\ boards = NullArr
  /\ isLoading = TRUE
  /\ error = NullStr
  /\ loads = <<[pc |-> "body", cancelled |-> FALSE, outcome |-> "pending", data |-> <<>>]>>
  /\ InitQuery
  /\ compareIds = <<>>
  /\ csvText \in CsvTexts
  /\ csvBoards = NullArr
  /\ FirstRender

NextCsv ==
  \/ ParseCsv

SpecCsv == InitCsv /\ [][NextCsv]_vars

\* The number of fields of a row read with quotes honoured: one more than
\* its commas that have an even number of quote characters before them.
QuoteAwareCount(line) ==
  1 + Cardinality({i \in DOMAIN line :
        /\ line[i] = ","
        /\ Cardinality({j \in 1..(i - 1) : line[j] = "\""}) % 2 = 0})

\* The number of fields of the header row as line 92 counts them: one more
\* than its commas.
HeaderCount(line) == 1 + Cardinality({i \in DOMAIN line : line[i] = ","})

\* The data rows (0-based positions in rows, as in the code) that have at
\* least as many fields as the header.
LongEnough(rows) ==
  SelectSeq([i \in 1..(Len(rows) - 1) |-> i],
            LAMBDA i : QuoteAwareCount(rows[i + 1]) >= HeaderCount(rows[1]))

\* C9.  A data row with fewer fields, quotes honoured, than the header is
\* dropped and the parse goes on: the boards returned are those of the rows
\* with at least as many fields as the header, one each, in source order.
C9_ShortRowsDropped ==
  csvBoards.some =>
    LET rows == csvRows(csvText)
        keep == IF rows = <<>> THEN <<>> ELSE LongEnough(rows)
    IN /\ Len(csvBoards.val) = Len(keep)
       /\ \A k \in DOMAIN keep :
            csvBoards.val[k] =
              csvBoard(scanRow(rows[keep[k] + 1], 1, <<>>, <<>>, FALSE),
                       csvHeaders(rows[1]), keep[k])

\* C9, its case: a short row was dropped and a later row gave a board.
C9_Witness ==
  /\ csvBoards.some
  /\ Len(csvRows(csvText)) = 3
  /\ QuoteAwareCount(csvRows(csvText)[2]) < HeaderCount(csvRows(csvText)[1])
  /\ QuoteAwareCount(csvRows(csvText)[3]) >= HeaderCount(csvRows(csvText)[1])
  /\ HeaderCount(csvRows(csvText)[1]) = 2
  /\ Len(csvBoards.val) = 1

\* ------------------------------------------------- CSV ingestion, the fields

\* The characters of the data rows below: a digit that is also a word for
\* sponsored, a capital that lower-cases to such a word, a space, a letter
\* that is neither, and the separators.
CsvFieldChars == {"1", "Y", " ", "x", ",", "\n"}

\* The header rows of those texts: the sponsored flag and a numeric column,
\* and the other two numeric columns.
CsvFieldStarts ==
  { K_sponsored \o <<",">> \o K_volume \o <<"\n">>,
    K_recommendedWeightMin \o <<",">> \o K_recommendedWeightMax \o <<"\n">> }

CsvFieldTexts ==
  {h \o t : h \in CsvFieldStarts, t \in SeqsUpTo(CsvFieldChars, MaxCsvTail)}

\* The page of the CSV source, the body of the response read.
InitCsvFields ==
  /\ dataSource = "airtable"
  /\ boards = NullArr
  /\ isLoading = TRUE
  /\ error = NullStr
  /\ loads = <<[pc |-> "body", cancelled |-> FALSE, outcome |-> "pending", data |-> <<>>]>>
  /\ InitQuery
  /\ compareIds = <<>>
  /\ csvText \in CsvFieldTexts
  /\ csvBoards = NullArr
  /\ FirstRender

NextCsvFields ==
  \/ ParseCsv

SpecCsvFields == InitCsvFields /\ [][NextCsvFields]_vars

\* The header and the data rows that gave the boards returned.
CsvHeaderRow == csvHeaders(csvRows(csvText)[1])
CsvKeptRows == LongEnough(csvRows(csvText))

\* The value of column k in the row that gave board number n.
CsvValue(n, k) ==
  col(scanRow(csvRows(csvText)[CsvKeptRows[n] + 1], 1, <<>>, <<>>, FALSE),
      CsvHeaderRow, k)

\* C12.  A board's sponsored flag is true exactly when the value of the
\* sponsored column, trimmed and lower-cased, is one of "1", "true", "yes",
\* "y"; an empty value and a missing column give false.
C12_SponsoredTrimmedLowerCased ==
  csvBoards.some =>
    \A n \in DOMAIN csvBoards.val :
      csvBoards.val[n].sponsored
        <=> toLowerCase(Trim(CsvValue(n, K_sponsored))) \in SponsoredWords

\* A decimal numeral, white space around it allowed, as its value; any
\* other text, the empty one too, as 0.
DecimalOrZero(str) ==
  LET t == Trim(str)
  IN IF t # <<>> /\ \A i \in DOMAIN t : \E d \in DOMAIN Digits : Digits[d] = t[i]
       THEN digitsValue(t, 0)
       ELSE 0

\* C13.  Every row with enough fields gives a board, and the board's volume
\* and recommended weights are the decimal values of their columns, or 0
\* where the value is missing or is not a number.
C13_NumericDefaultsToZero ==
  csvBoards.some =>
    /\ Len(csvBoards.val) = Len(CsvKeptRows)
    /\ \A n \in DOMAIN csvBoards.val :
         /\ csvBoards.val[n].volume = Num(DecimalOrZero(CsvValue(n, K_volume)))
         /\ csvBoards.val[n].recommendedWeight =
              << Num(DecimalOrZero(CsvValue(n, K_recommendedWeightMin))),
                 Num(DecimalOrZero(CsvValue(n, K_recommendedWeightMax))) >>

====
